---- MODULE Spec2Model ----
(***************************************************************************)
(* A model of yggpub (src/yggpub.go): a status dashboard that, on every    *)
(* GET /, queries the Yggdrasil admin socket for its switch peers, groups  *)
(* the per-port records by peer address, renders one chart block per peer  *)
(* and splices the result into template.html.                              *)
(*                                                                         *)
(* Byte counters are uint64 in the program and arrive as JSON numbers,     *)
(* which encoding/json decodes as float64 (53 significant bits).  The      *)
(* model keeps both widths, scaled down: Width bits stand for the 64 bits  *)
(* of uint64 and MantBits bits for the 53 bits of a float64 significand.   *)
(*                                                                         *)
(* net/http serves every client connection in its own goroutine, one       *)
(* request after the other on a connection.  The model has two            *)
(* connections.  A handler's locals belong to its goroutine; the process   *)
(* (log.Fatalln ends it for everybody) and the admin endpoint are shared.  *)
(* The state keeps the locals and the response of the requests on the      *)
(* connection Followed; the requests of the other connections run the same *)
(* code, and their pages go to their own clients.  The admin socket, the   *)
(* file system and the listener are the environment: their answers are     *)
(* chosen nondeterministically.                                            *)
(***************************************************************************)
EXTENDS Integers, Sequences, FiniteSets, TLC

VARIABLES
    proc,        \* the process: "starting", "listening" or "exited"
    adminaddr,   \* the -adminaddr flag, fixed at start-up
    pc,          \* per connection, the call its handler is blocked in, or "idle"
    connOpen,    \* admin connections currently open, over all handlers
    dials,       \* net.Dial calls made by the followed request
    opens,       \* connections the followed request opened
    closes,      \* conn.Close calls made by the followed request
    outcome,     \* how the followed request ended (see Outcomes)
    body,        \* what the followed request wrote to the ResponseWriter
    resp,        \* what conn.Read delivered to the followed request
    peermap,     \* handler's peermap after the populate loop
    totalbytes,  \* handler's totalbytes after the populate loop
    str,         \* handler's strings.Builder after the render loop
    offset       \* handler's offset after the render loop

vars == <<proc, adminaddr, pc, connOpen, dials, opens, closes, outcome, body,
          resp, peermap, totalbytes, str, offset>>

-----------------------------------------------------------------------------
(* Bounds of the model.                                                    *)

\* Bits of the unsigned counter type (stands for the 64 of uint64).
Width == 5
\* Bits of the float significand (stands for the 53 of float64).
MantBits == 3
\* Most switch ports (link records) in one admin response.
MaxLinks == 3

RECURSIVE Pow2(_)
Pow2(n) == IF n = 0 THEN 1 ELSE 2 * Pow2(n - 1)

\* 2^64 in the program: uint64 arithmetic is modulo this.
Modulus == Pow2(Width)

-----------------------------------------------------------------------------
(* Generic helpers.                                                        *)

Range(s) == {s[i] : i \in DOMAIN s}

\* Every enumeration order of a finite set: Go's map iteration order is
\* unspecified, so a `for k, v := range m` loop may take any of them.
Orders(S) ==
    {s \in [1..Cardinality(S) -> S] : \A i, j \in 1..Cardinality(S) : s[i] = s[j] => i = j}

EmptyMap == [x \in {} |-> x]

RECURSIVE SumSeq(_)
SumSeq(s) == IF s = <<>> THEN 0 ELSE Head(s) + SumSeq(Tail(s))

RECURSIVE SumOver(_, _)
\* Sum of f[x] over x \in S, in unbounded integers.
SumOver(f, S) ==
    IF S = {} THEN 0
    ELSE LET x == CHOOSE y \in S : TRUE IN f[x] + SumOver(f, S \ {x})

-----------------------------------------------------------------------------
(* Number conversions: JSON number -> float64 -> uint64.                   *)

RECURSIVE Ulp(_)
\* Spacing of the floats around n >= 0: 1 while n fits the significand, and
\* doubling with every further bit.
Ulp(n) == IF n < Pow2(MantBits) THEN 1 ELSE 2 * Ulp(n \div 2)

\* json.Unmarshal into interface{} stores a JSON number as the nearest
\* float64, ties to the even significand (strconv.ParseFloat).
Float64Of(n) ==
    LET step == Ulp(n)
        q    == n \div step
        r    == n % step
    IN  IF 2 * r < step THEN q * step
        ELSE IF 2 * r > step THEN (q + 1) * step
        ELSE IF q % 2 = 0 THEN q * step ELSE (q + 1) * step

\* uint64(f) for a non-negative integral float64 f.  In range the conversion
\* is exact.  Out of range (f = 2^64) the Go specification leaves the value
\* implementation-dependent: amd64 yields 2^63, arm64 saturates.
Uint64Of(f) ==
    IF f < Modulus THEN {f} ELSE {Pow2(Width - 1), Modulus - 1}

\* uint64 addition and subtraction wrap around.
U64Add(a, b) == (a + b) % Modulus
U64Sub(a, b) == (a - b) % Modulus

-----------------------------------------------------------------------------
(* Configuration and environment.                                          *)

\* Values of the -adminaddr flag: the default unix socket URL, a bare file
\* name (parses, but names no network) and a string url.Parse rejects
\* ("missing protocol scheme").
AdminAddrs == {"unix:///var/run/yggdrasil.sock", "yggdrasil.sock", ":9001"}

\* The -nodename flag.
Nodename == "node1"

\* url.Parse, tabulated on AdminAddrs.
UrlParse(a) ==
    CASE a = "unix:///var/run/yggdrasil.sock" ->
            [ok |-> TRUE, Scheme |-> "unix", Host |-> "", Path |-> "/var/run/yggdrasil.sock"]
      [] a = "yggdrasil.sock" ->
            [ok |-> TRUE, Scheme |-> "", Host |-> "", Path |-> "yggdrasil.sock"]
      [] OTHER ->
            [ok |-> FALSE, Scheme |-> "", Host |-> "", Path |-> ""]

\* The address handed to net.Dial: the path of a unix URL, else the host.
DialAddress(admin) == IF admin.Scheme = "unix" THEN admin.Path ELSE admin.Host

\* net.Dial can only succeed for a known network and a non-empty address;
\* whether it does is up to the environment.
Dialable(network, address) == network \in {"tcp", "unix"} /\ address # ""

\* json.Marshal of map[string]interface{}{"request": "getSwitchPeers"}: a
\* map of strings always marshals.
Marshal(request) == [ok |-> TRUE, j |-> request]

GetSwitchPeers == "{\"request\":\"getSwitchPeers\"}"

\* Paths registered with filehandler; every other path goes to handler.
StaticPaths == {"/style.css", "/chartist.min.css", "/chartist.min.js"}

-----------------------------------------------------------------------------
(* The admin response as json.Unmarshal presents it.                       *)

\* Markers for a key that is missing and for a value of another JSON type.
Absent   == "<absent>"
WrongType == "<number>"
Object   == "<object>"

IsString(v) == v \notin {Absent, WrongType, Object}
IsObject(v) == v = Object

\* Peer addresses, in the order in which an input may first use them.
IPs == <<"200::1", "200::2", "200::3", "200::4", "200::5", "200::6">>
IpIndex(ip) == CHOOSE i \in DOMAIN IPs : IPs[i] = ip

\* The records a link can report, as (bytes_sent, bytes_recvd, coords):
\* small counters at the root; a counter just below half the range, which
\* float64 rounds up to half the range; two counters of half the range each,
\* both exact; and the largest counter, which float64 rounds up to 2^64.
RecordCases ==
    { <<1, 2, "[]">>,
      <<Pow2(Width - 1) - 1, 0, "[1 2]">>,
      <<Pow2(Width - 1), Pow2(Width - 1), "[1 2]">>,
      <<Modulus - 1, 0, "[]">> }

\* A counter that is missing or no JSON number.
NotANumber == -1
IsNumber(v) == v # NotANumber

Record(type, ip, sent, recvd, coords) ==
    [type |-> type, ip |-> ip, bytes_sent |-> sent, bytes_recvd |-> recvd, coords |-> coords]

GoodRecords ==
    { Record(Object, IPs[i], b[1], b[2], b[3]) : i \in 1..MaxLinks, b \in RecordCases }

\* Malformed switchpeers entries: one that is no object, and objects without
\* "ip", with a "bytes_sent" or a "bytes_recvd" that is no number, and
\* without "coords".
BadRecords ==
    { Record(WrongType, Absent, NotANumber, NotANumber, Absent),
      Record(Object, Absent, 1, 2, "[]"),
      Record(Object, IPs[1], NotANumber, 2, "[]"),
      Record(Object, IPs[1], 1, NotANumber, "[]"),
      Record(Object, IPs[1], 1, 2, Absent) }

\* Peer addresses are only labels: an input names them in first-use order.
FirstUseOrder(p) ==
    \A k \in DOMAIN p :
        IsString(p[k].ip) =>
            \A i \in 1..(IpIndex(p[k].ip) - 1) : \E j \in 1..(k - 1) : p[j].ip = IPs[i]

\* The switchpeers objects, link id -> record: every map of well-formed
\* records, and those maps with a malformed record added as the last link.
GoodInputs ==
    UNION { {p \in [1..n -> GoodRecords] : FirstUseOrder(p)} : n \in 0..MaxLinks }
PeerInputs ==
    GoodInputs
    \cup { Append(p, b) : p \in {q \in GoodInputs : Len(q) < MaxLinks}, b \in BadRecords }

NoPeers == EmptyMap

Response(n, json, status, response, switchpeers, peers) ==
    [n |-> n, json |-> json, status |-> status, response |-> response,
     switchpeers |-> switchpeers, peers |-> peers]

\* What one conn.Read can deliver: nothing; bytes that are no JSON object
\* (garbage, or a response cut off by the fixed buffer); an object whose
\* "status" is missing, not a string, or another string; a successful object
\* whose "response" or "switchpeers" is missing or mistyped; a successful
\* object with a switchpeers map.
Responses ==
    { Response(0, FALSE, Absent, Absent, Absent, NoPeers),
      Response(1, FALSE, Absent, Absent, Absent, NoPeers) }
    \cup { Response(1, TRUE, s, Absent, Absent, NoPeers) : s \in {Absent, WrongType, "error"} }
    \cup { Response(1, TRUE, "success", r, Absent, NoPeers) : r \in {Absent, WrongType} }
    \cup { Response(1, TRUE, "success", Object, s, NoPeers) : s \in {Absent, WrongType} }
    \cup { Response(1, TRUE, "success", Object, Object, p) : p \in PeerInputs }

NoResponse == Response(0, FALSE, Absent, Absent, Absent, NoPeers)

-----------------------------------------------------------------------------
(* Pages: sequences of pieces, each a run of text or one chart block.      *)

Text(t) ==
    [kind |-> "text", text |-> t, id |-> 0, series |-> <<>>, ipv6 |-> "",
     coords |-> "", label |-> "", ports |-> <<>>]

\* One <div class='node'> block: the chart id, the four series values, the
\* peer address, its coordinates and its port list.  (The humanized byte
\* counts repeat series[2] and series[3] through go-humanize.)
Node(id, series, ipv6, coords, label, ports) ==
    [kind |-> "node", text |-> "", id |-> id, series |-> series, ipv6 |-> ipv6,
     coords |-> coords, label |-> label, ports |-> ports]

HostnameToken == "%HOSTNAME%"
PeersToken    == "%PEERS%"

\* template.html: the two placeholders inside some markup.
Template ==
    <<Text("<h1>"), Text(HostnameToken), Text("</h1><div>"), Text(PeersToken), Text("</div>")>>

NoPeersNotice == Text("<div>There are no connected peers at this time.</div>")

RECURSIVE Replace(_, _, _)
\* strings.Replace(page, old, new, -1): every occurrence of old becomes new.
Replace(page, old, new) ==
    IF page = <<>> THEN <<>>
    ELSE IF Head(page) = Text(old)
         THEN new \o Replace(Tail(page), old, new)
         ELSE <<Head(page)>> \o Replace(Tail(page), old, new)

\* The page is handed to fmt.Fprintf as the FORMAT string, with no operands:
\* a '%' left in it starts a verb.  "%H" prints as "%!H(MISSING)"; the '%'
\* closing the token takes the next character as its verb.
BadVerbs(t) ==
    CASE t = HostnameToken -> "%!H(MISSING)OSTNAME%!<(MISSING)"
      [] t = PeersToken    -> "%!P(MISSING)EERS%!<(MISSING)"
      [] OTHER             -> t
HasVerb(t) == t \in {HostnameToken, PeersToken}
\* A text whose first character the preceding '%' consumed.
Consumed(t) ==
    CASE t = "</h1><div>" -> "/h1><div>"
      [] t = "</div>"     -> "/div>"
      [] OTHER            -> t

RECURSIVE Fprintf(_, _)
\* fmt.Fprintf(w, page): eaten tells whether the previous piece ended in an
\* open '%'.
Fprintf(page, eaten) ==
    IF page = <<>> THEN <<>>
    ELSE LET h == Head(page) IN
         IF h.kind = "text" /\ HasVerb(h.text)
         THEN <<Text(BadVerbs(h.text))>> \o Fprintf(Tail(page), TRUE)
         ELSE IF h.kind = "text" /\ eaten
         THEN <<Text(Consumed(h.text))>> \o Fprintf(Tail(page), FALSE)
         ELSE <<h>> \o Fprintf(Tail(page), FALSE)

\* The in-page error of lines 102, 115, 122, 128: only %PEERS% is replaced.
ErrorPage(message) == Fprintf(Replace(Template, PeersToken, <<Text(message)>>), FALSE)

\* Lines 199-201: %HOSTNAME%, then %PEERS%, then Fprintf.
FinalPage(fragment) ==
    Fprintf(Replace(Replace(Template, HostnameToken, <<Text(Nodename)>>),
                    PeersToken, fragment), FALSE)

-----------------------------------------------------------------------------
(* The populate loop (lines 140-165).                                      *)

\* The values uint64(x.(float64)) can take for a counter x.
ConvertedCounter(x) == IF IsNumber(x) THEN Uint64Of(Float64Of(x)) ELSE {0}

\* The (tx, rx) pairs a record can convert to.
Converted(peer) ==
    { [tx |-> t, rx |-> r] :
        t \in ConvertedCounter(peer.bytes_sent), r \in ConvertedCounter(peer.bytes_recvd) }

\* The loop left by a failed type assertion.
Panicked == [peermap |-> EmptyMap, totalbytes |-> 0, panicked |-> TRUE]

\* The type assertions of one iteration: v.(map) and peer["ip"].(string)
\* first (lines 145-146); then the two counters (line 148 or 155); and
\* peer["coords"].(string) only where a new entry is made (line 159).
WellFormed(peer, known) ==
    /\ IsObject(peer.type)
    /\ IsString(peer.ip)
    /\ IsNumber(peer.bytes_sent)
    /\ IsNumber(peer.bytes_recvd)
    /\ known \/ IsString(peer.coords)

\* One iteration for link k of the loop, from pm = (peermap, totalbytes).
PopulateStep(pm, k, peer, c) ==
    LET peerip == peer.ip IN
    IF ~WellFormed(peer, peerip \in DOMAIN pm.peermap) THEN Panicked
    ELSE IF peerip \in DOMAIN pm.peermap
    THEN LET peerdata == pm.peermap[peerip] IN
         [peermap |->
             (peerip :> [ports   |-> Append(peerdata.ports, k),
                         txbytes |-> U64Add(peerdata.txbytes, c.tx),
                         rxbytes |-> U64Add(peerdata.rxbytes, c.rx),
                         coords  |-> peerdata.coords]) @@ pm.peermap,
          totalbytes |-> U64Add(pm.totalbytes, U64Add(c.tx, c.rx)),
          panicked |-> FALSE]
    ELSE [peermap |->
             (peerip :> [ports   |-> <<k>>,
                         txbytes |-> c.tx,
                         rxbytes |-> c.rx,
                         coords  |-> peer.coords]) @@ pm.peermap,
          totalbytes |-> U64Add(pm.totalbytes, U64Add(c.tx, c.rx)),
          panicked |-> FALSE]

RECURSIVE Populate(_, _, _, _)
\* The whole loop over peers in iteration order `order`, conv[k] being the
\* converted counters of link k; a panic ends it.
Populate(order, peers, conv, pm) ==
    IF order = <<>> \/ pm.panicked THEN pm
    ELSE Populate(Tail(order), peers, conv,
                  PopulateStep(pm, Head(order), peers[Head(order)], conv[Head(order)]))

-----------------------------------------------------------------------------
(* The render loop (lines 168-196).                                        *)

PortsLabel(ports) == IF Len(ports) > 1 THEN "switch ports" ELSE "switch port"

ShownCoords(coords) == IF coords = "[]" THEN "Root" ELSE coords

\* A render loop that advances the offset by the sent bytes alone.
NextOffsetSentOnly(off, peer) == U64Add(off, peer.txbytes)

\* offset += peer.rxbytes + peer.txbytes
NextOffset(off, peer) == U64Add(off, U64Add(peer.rxbytes, peer.txbytes))

\* One iteration, from rs = (str, count, offset).
RenderStep(rs, ipv6, peer, total) ==
    [str |->
        Append(rs.str,
               Node(rs.count,
                    <<rs.offset, peer.txbytes, peer.rxbytes,
                      U64Sub(U64Sub(U64Sub(total, rs.offset), peer.txbytes), peer.rxbytes)>>,
                    ipv6, ShownCoords(peer.coords), PortsLabel(peer.ports), peer.ports)),
     count  |-> rs.count + 1,
     offset |-> NextOffset(rs.offset, peer)]

RECURSIVE RenderLoop(_, _, _, _)
RenderLoop(order, pmap, total, rs) ==
    IF order = <<>> THEN rs
    ELSE RenderLoop(Tail(order), pmap, total,
                    RenderStep(rs, Head(order), pmap[Head(order)], total))

\* A render epilogue that writes the notice without looking at peermap.
WithNoticeAlways(fragment, pmap) == Append(fragment, NoPeersNotice)

\* if len(peermap) == 0 { notice }
WithNotice(fragment, pmap) ==
    IF Cardinality(DOMAIN pmap) = 0 THEN Append(fragment, NoPeersNotice) ELSE fragment

-----------------------------------------------------------------------------
(* The process and its handlers.                                           *)

\* How the followed request can end:
\*   "file"        filehandler wrote the file
\*   "fatal"       its log.Fatalln ended the process (lines 62, 71, 77)
\*   "dialfail"    net.Dial failed: logged, handler returned (lines 89-92)
\*   "marshal"     line 102        "noresponse"  line 115
\*   "unmarshal"   line 122        "nonsuccess"  line 128
\*   "panic"       a type assertion of lines 127-162 failed; net/http
\*                 recovers the panic and aborts the HTTP connection
\*   "page"        line 201
\* "none" before its first request, "pending" while handler runs.
Outcomes ==
    {"none", "pending", "file", "fatal", "dialfail", "marshal", "noresponse",
     "unmarshal", "nonsuccess", "panic", "page"}

\* The client connections: the one whose requests the state records, and
\* another, whose handler runs beside it.
Followed == "followed"
Conns == {Followed, "other"}

\* The calls handler blocks in, in order: net.Dial (line 88), conn.Write
\* (line 107), conn.Read (line 113).  ("idle": no request, or the request is
\* still in ioutil.ReadFile, before which a handler has done nothing.)
Positions == {"idle", "Dial", "Write", "Read", "Close"}

\* A handler at these positions has dialled and not yet closed.
HoldsConn(position) == position \in {"Write", "Read", "Close"}

\* A handler that closes the connection before each return instead of
\* deferring the Close: a panic then leaves the connection open.
ClosesOnReturnOnly(exit) == IF exit = "panic" THEN 0 ELSE 1

\* defer conn.Close() (line 93) runs once when handler returns or panics.
ClosesOnExit(exit) == 1

\* The last path segment, which filehandler opens as a file name.
FileName(path) ==
    CASE path = "/style.css"        -> "style.css"
      [] path = "/chartist.min.css" -> "chartist.min.css"
      [] path = "/chartist.min.js"  -> "chartist.min.js"
      [] OTHER                      -> path

Init ==
    /\ proc = "starting"
    /\ adminaddr \in AdminAddrs
    /\ pc = [g \in Conns |-> "idle"]
    /\ connOpen = 0
    /\ dials = 0
    /\ opens = 0
    /\ closes = 0
    /\ outcome = "none"
    /\ body = <<>>
    /\ resp = NoResponse
    /\ peermap = EmptyMap
    /\ totalbytes = 0
    /\ str = <<>>
    /\ offset = 0

\* What the state records of the followed request.
record == <<dials, opens, closes, outcome, body, resp, peermap, totalbytes, str, offset>>

\* The followed request has none of the dashboard's results.
NoDashboard ==
    /\ resp' = NoResponse
    /\ peermap' = EmptyMap
    /\ totalbytes' = 0
    /\ str' = <<>>
    /\ offset' = 0

\* The followed request ends with `exit` and has written `page`.
Ends(exit, page) == outcome' = exit /\ body' = page

\* main (lines 22-48): parse the flags, register the handlers, listen.
\* Nothing looks at *adminaddr; log.Fatal ends the process if listening fails.
main ==
    /\ proc = "starting"
    /\ \E listening \in BOOLEAN :
          proc' = IF listening THEN "listening" ELSE "exited"
    /\ UNCHANGED <<adminaddr, pc, connOpen, record>>

\* filehandler (lines 57-65), for a request on connection g: the file named
\* by the path is written, or log.Fatalln ends the process.
filehandler(g) ==
    /\ proc = "listening"
    /\ pc[g] = "idle"
    /\ \E readOK \in BOOLEAN :
          /\ proc' = IF readOK THEN proc ELSE "exited"
          /\ IF g = Followed
             THEN /\ IF readOK
                     THEN \E path \in StaticPaths : Ends("file", <<Text(FileName(path))>>)
                     ELSE Ends("fatal", <<>>)
                  /\ dials' = 0 /\ opens' = 0 /\ closes' = 0
                  /\ NoDashboard
             ELSE UNCHANGED record
    /\ UNCHANGED <<adminaddr, pc, connOpen>>

\* handler, lines 67-87, for a new request on connection g: read the
\* template and parse the address; log.Fatalln if either fails.
handlerReadFile(g) ==
    /\ proc = "listening"
    /\ pc[g] = "idle"
    /\ \E templateOK \in BOOLEAN :
          LET fatal == ~templateOK \/ ~UrlParse(adminaddr).ok IN
          /\ proc' = IF fatal THEN "exited" ELSE proc
          /\ pc' = IF fatal THEN pc ELSE [pc EXCEPT ![g] = "Dial"]
          /\ IF g = Followed
             THEN /\ Ends(IF fatal THEN "fatal" ELSE "pending", <<>>)
                  /\ dials' = 0 /\ opens' = 0 /\ closes' = 0
                  /\ NoDashboard
             ELSE UNCHANGED record
    /\ UNCHANGED <<adminaddr, connOpen>>

\* handler, lines 88-104: net.Dial returns.  On an error the handler logs it
\* and returns; else it defers the Close and marshals the request; a marshal
\* error writes its page and returns into the deferred Close.
handlerDial(g) ==
    /\ proc = "listening"
    /\ pc[g] = "Dial"
    /\ \E dialOK \in BOOLEAN :
          LET admin  == UrlParse(adminaddr)
              dialed == dialOK /\ Dialable(admin.Scheme, DialAddress(admin))
              j      == Marshal(GetSwitchPeers)
              exit   == IF ~dialed THEN "dialfail" ELSE IF ~j.ok THEN "marshal" ELSE "pending"
              page   == IF exit = "marshal" THEN ErrorPage("Unable to marshal JSON") ELSE <<>>
          IN
          /\ pc' = [pc EXCEPT ![g] = CASE exit = "pending" -> "Write"
                                          [] exit = "marshal" -> "Close"
                                          [] OTHER            -> "idle"]
          /\ connOpen' = connOpen + (IF dialed THEN 1 ELSE 0)
          /\ IF g = Followed
             THEN /\ Ends(exit, page)
                  /\ dials' = 1
                  /\ opens' = IF dialed THEN 1 ELSE 0
                  /\ closes' = 0
                  /\ UNCHANGED <<resp, peermap, totalbytes, str, offset>>
             ELSE UNCHANGED record
    /\ UNCHANGED <<proc, adminaddr>>

\* handler, line 107: conn.Write returns; its result is ignored.
handlerWrite(g) ==
    /\ proc = "listening"
    /\ pc[g] = "Write"
    /\ pc' = [pc EXCEPT ![g] = "Read"]
    /\ UNCHANGED <<proc, adminaddr, connOpen, record>>

\* The converted counters of every link of a switchpeers map.
Conversions(peers) ==
    LET all == UNION {Converted(peers[k]) : k \in DOMAIN peers}
    IN  {c \in [DOMAIN peers -> all] : \A k \in DOMAIN peers : c[k] \in Converted(peers[k])}

\* What the populate loop can leave behind: one (peermap, totalbytes), or a
\* panic, per iteration order of the switchpeers map and per conversion of
\* its counters.
Populated(peers) ==
    { Populate(order, peers, conv,
               [peermap |-> EmptyMap, totalbytes |-> 0, panicked |-> FALSE]) :
        order \in Orders(DOMAIN peers), conv \in Conversions(peers) }

\* A response that fails a type assertion of lines 127-137.
Panics(r) ==
    \/ ~IsString(r.status)
    \/ /\ r.status = "success"
       /\ \/ ~IsObject(r.response)
          \/ ~IsObject(r.switchpeers)

NoResults == peermap' = EmptyMap /\ totalbytes' = 0 /\ str' = <<>> /\ offset' = 0

\* handler, lines 113-201, on the followed connection: conn.Read returns and
\* the handler runs until fmt.Fprintf has written its page, or until a type
\* assertion panics; the deferred Close has not yet run.
handlerRead ==
    /\ proc = "listening"
    /\ pc[Followed] = "Read"
    /\ pc' = [pc EXCEPT ![Followed] = "Close"]
    /\ \E r \in Responses :
          /\ resp' = r
          /\ IF r.n = 0
             THEN Ends("noresponse", ErrorPage("No response from admin socket"))
                  /\ NoResults
             ELSE IF ~r.json
             THEN Ends("unmarshal", ErrorPage("Unable to unmarshal JSON"))
                  /\ NoResults
             ELSE IF Panics(r)
             THEN Ends("panic", <<>>) /\ NoResults
             ELSE IF r.status # "success"
             THEN Ends("nonsuccess", ErrorPage("Non-successful response"))
                  /\ NoResults
             ELSE \E pm \in Populated(r.peers) :
                    IF pm.panicked
                    THEN Ends("panic", <<>>) /\ NoResults
                    ELSE \E rorder \in Orders(DOMAIN pm.peermap) :
                       LET rs == RenderLoop(rorder, pm.peermap, pm.totalbytes,
                                            [str |-> <<>>, count |-> 0, offset |-> 0])
                           fragment == WithNotice(rs.str, pm.peermap)
                       IN  /\ peermap' = pm.peermap
                           /\ totalbytes' = pm.totalbytes
                           /\ str' = fragment
                           /\ offset' = rs.offset
                           /\ Ends("page", FinalPage(fragment))
    /\ UNCHANGED <<proc, adminaddr, connOpen, dials, opens, closes>>

\* The same lines on another connection: whatever Read delivers, the handler
\* writes its page to its own client or panics; its deferred Close has not
\* yet run.
handlerReadOther(g) ==
    /\ proc = "listening"
    /\ g # Followed
    /\ pc[g] = "Read"
    /\ pc' = [pc EXCEPT ![g] = "Close"]
    /\ UNCHANGED <<proc, adminaddr, connOpen, record>>

\* handler, line 93: the handler of connection g has returned or panicked
\* and its deferred conn.Close() runs.
handlerClose(g) ==
    /\ proc = "listening"
    /\ pc[g] = "Close"
    /\ pc' = [pc EXCEPT ![g] = "idle"]
    /\ IF g = Followed
       THEN /\ closes' = closes + ClosesOnExit(outcome)
            /\ connOpen' = connOpen - ClosesOnExit(outcome)
            /\ UNCHANGED <<dials, opens, outcome, body, resp, peermap, totalbytes, str, offset>>
       ELSE /\ \E exit \in {"page", "panic"} :
                  connOpen' = connOpen - ClosesOnExit(exit)
            /\ UNCHANGED record
    /\ UNCHANGED <<proc, adminaddr>>

Next ==
    \/ main
    \/ \E g \in Conns : filehandler(g)
    \/ \E g \in Conns : handlerReadFile(g)
    \/ \E g \in Conns : handlerDial(g)
    \/ \E g \in Conns : handlerWrite(g)
    \/ handlerRead
    \/ \E g \in Conns : handlerReadOther(g)
    \/ \E g \in Conns : handlerClose(g)

Spec == Init /\ [][Next]_vars

-----------------------------------------------------------------------------
(* Vocabulary of the properties.                                           *)

\* The last request was a dashboard request that rendered the peers.
Rendered == outcome = "page"

Links == DOMAIN resp.peers
LinksOf(ip) == {k \in Links : resp.peers[k].ip = ip}
RawAddresses == {resp.peers[k].ip : k \in Links}

\* Sums over the raw link records, in unbounded integers.
RawSent  == [k \in Links |-> resp.peers[k].bytes_sent]
RawRecvd == [k \in Links |-> resp.peers[k].bytes_recvd]
RawTotal == SumOver(RawSent, Links) + SumOver(RawRecvd, Links)

\* Sum over the peermap entries, in unbounded integers.
PeerBytes == [ip \in DOMAIN peermap |-> peermap[ip].txbytes + peermap[ip].rxbytes]
PeermapTotal == SumOver(PeerBytes, DOMAIN peermap)

\* The chart blocks of the rendered fragment, in render order.
Blocks == SelectSeq(str, LAMBDA b : b.kind = "node")

\* sent + received of the blocks rendered before the k-th.
RenderedBefore(k) ==
    SumSeq([j \in 1..(k - 1) |-> Blocks[j].series[2] + Blocks[j].series[3]])

\* The k-th block shows the counters of its peer.
ShowsItsPeer(k) ==
    /\ Blocks[k].ipv6 \in DOMAIN peermap
    /\ Blocks[k].series[2] = peermap[Blocks[k].ipv6].txbytes
    /\ Blocks[k].series[3] = peermap[Blocks[k].ipv6].rxbytes

ErrorMessages ==
    {"Unable to marshal JSON", "No response from admin socket",
     "Unable to unmarshal JSON", "Non-successful response"}

\* The requests that delivered a page built from the template.
PageOutcomes == {"marshal", "noresponse", "unmarshal", "nonsuccess", "page"}

-----------------------------------------------------------------------------
(* The claims.                                                             *)

\* C1 (conservation): after the populate loop the sum of txbytes + rxbytes
\* over all peermap entries equals the sum of bytes_sent + bytes_recvd over
\* all raw link records.
C1_Conservation == Rendered => PeermapTotal = RawTotal

\* C2 (grouping): peermap has exactly one entry per peer address of the raw
\* records and none else; the entry's ports are exactly the link ids of that
\* address, each once, and its txbytes and rxbytes are the sums of those
\* records' bytes_sent and bytes_recvd.
C2_Grouping ==
    Rendered =>
        /\ DOMAIN peermap = RawAddresses
        /\ \A ip \in DOMAIN peermap :
              /\ Range(peermap[ip].ports) = LinksOf(ip)
              /\ Len(peermap[ip].ports) = Cardinality(LinksOf(ip))
              /\ peermap[ip].txbytes = SumOver(RawSent, LinksOf(ip))
              /\ peermap[ip].rxbytes = SumOver(RawRecvd, LinksOf(ip))

\* Every counter of the response is a number float64 holds exactly, so the
\* decoding leaves it as it is.
ExactCounters ==
    \A k \in Links :
        /\ Float64Of(resp.peers[k].bytes_sent) = resp.peers[k].bytes_sent
        /\ Float64Of(resp.peers[k].bytes_recvd) = resp.peers[k].bytes_recvd

\* C3 as stated (offset accumulation): the k-th rendered block's offset is
\* the sum of sent + received of the k-1 blocks before it, and its remainder
\* is totalbytes - offset - sent - received, both as plain integers.  Stated
\* for the responses whose counters are decoded exactly, where it already
\* fails: the sums wrap around at 2^64.
C3_OffsetAccumulationExact ==
    (Rendered /\ ExactCounters) =>
        \A k \in 1..Len(Blocks) :
            /\ ShowsItsPeer(k)
            /\ Blocks[k].series[1] = RenderedBefore(k)
            /\ Blocks[k].series[4] =
                  totalbytes - Blocks[k].series[1] - Blocks[k].series[2] - Blocks[k].series[3]

\* C3 as amended: the same two equations hold in uint64 arithmetic, that is
\* modulo 2^64: the offset is the wrapped sum of the earlier blocks and the
\* remainder the wrapped difference.
C3_OffsetAccumulation ==
    Rendered =>
        \A k \in 1..Len(Blocks) :
            /\ ShowsItsPeer(k)
            /\ Blocks[k].series[1] = RenderedBefore(k) % Modulus
            /\ Blocks[k].series[4] =
                  (totalbytes - Blocks[k].series[1] - Blocks[k].series[2]
                     - Blocks[k].series[3]) % Modulus

\* Three peers rendered, the third behind a non-zero offset.
C3_Witness ==
    /\ Rendered
    /\ Len(Blocks) = 3
    /\ Blocks[3].series[1] > 0
    /\ Blocks[2].series[1] > 0

\* C4: every admin-query failure of a dashboard request (endpoint
\* unreachable, empty response, malformed JSON, unsuccessful status) ends
\* with the template delivered, an explanatory message in place of %PEERS%,
\* and the server still serving.
C4_AdminFailureRecovered ==
    (/\ outcome \in {"dialfail", "noresponse", "unmarshal", "nonsuccess"}
     /\ Dialable(UrlParse(adminaddr).Scheme, DialAddress(UrlParse(adminaddr))))
    => /\ proc = "listening"
       /\ \E m \in ErrorMessages : body = ErrorPage(m)

\* C5: a status field that is missing, not a string, or a string other than
\* "success" yields the "Non-successful response" page, and the handler does
\* not panic.
C5_BadStatusHandled ==
    (/\ pc[Followed] = "idle"
     /\ resp.n # 0
     /\ resp.json
     /\ resp.status # "success")
    => /\ outcome = "nonsuccess"
       /\ body = ErrorPage("Non-successful response")

\* C6: a dashboard request dials once; on every exit path after the dial
\* (marshal failure, empty read, unmarshal failure, non-success status,
\* type-assertion panic, normal completion) it has opened one connection and
\* closed it once when it has left the handler; between its Dial and the
\* deferred Close it holds exactly the connection it opened, and otherwise
\* none; and the connections open at the admin endpoint are those of the
\* handlers between Dial and Close, one each.
C6_ConnectionScoped ==
    /\ connOpen = Cardinality({g \in Conns : HoldsConn(pc[g])})
    /\ opens - closes = IF HoldsConn(pc[Followed]) THEN 1 ELSE 0
    /\ HoldsConn(pc[Followed]) => (dials = 1 /\ opens = 1 /\ closes = 0)
    /\ (/\ outcome \in {"marshal", "noresponse", "unmarshal", "nonsuccess", "panic", "page"}
        /\ pc[Followed] = "idle")
          => (dials = 1 /\ opens = 1 /\ closes = 1)

\* A handler that panicked in a type assertion has closed its connection,
\* while the handler of another connection holds its own.
C6_Witness ==
    /\ outcome = "panic"
    /\ opens = 1 /\ closes = 1
    /\ pc[Followed] = "idle"
    /\ connOpen = 1

\* C7: every delivered page has %HOSTNAME% replaced by the node name and
\* %PEERS% replaced, and holds neither literal token.
C7_PlaceholdersSubstituted ==
    outcome \in PageOutcomes =>
        /\ Text(Nodename) \in Range(body)
        /\ Text(HostnameToken) \notin Range(body)
        /\ Text(PeersToken) \notin Range(body)

\* C8: with an empty switchpeers map the fragment is the no-peers notice
\* alone; with a non-empty map the notice is absent and there is exactly one
\* chart block per distinct peer address.
C8_NoticeOrBlocks ==
    Rendered =>
        /\ Links = {} => str = <<NoPeersNotice>>
        /\ Links # {} =>
              /\ NoPeersNotice \notin Range(str)
              /\ Len(str) = Len(Blocks)
              /\ Len(Blocks) = Cardinality(RawAddresses)
              /\ \A ip \in RawAddresses :
                    Cardinality({k \in 1..Len(Blocks) : Blocks[k].ipv6 = ip}) = 1

\* Three links to two peers rendered as two blocks.
C8_Witness ==
    /\ Rendered
    /\ Cardinality(Links) = 3
    /\ Len(Blocks) = 2
    /\ NoPeersNotice \notin Range(str)

\* C9: an admin address that url.Parse rejects ends the process before the
\* server listens.
C9_ConfigErrorFatalAtStartup == ~UrlParse(adminaddr).ok => proc # "listening"

\* C10: if the raw counters sum to less than 2^64 then in every block
\* offset + txbytes + rxbytes <= totalbytes, the four series values sum to
\* totalbytes, the final offset is totalbytes, and totalbytes is the raw sum.
C10_NoWrap ==
    (Rendered /\ RawTotal < Modulus) =>
        /\ \A k \in 1..Len(Blocks) :
              /\ Blocks[k].series[1] + Blocks[k].series[2] + Blocks[k].series[3] <= totalbytes
              /\ SumSeq(Blocks[k].series) = totalbytes
        /\ offset = totalbytes
        /\ totalbytes = RawTotal

=============================================================================
